---- MODULE Spec2Model ----
(***************************************************************************)
(* agent-collab: a command-line orchestrator around the "claude" and       *)
(* "codex" binaries.  This module models                                   *)
(*   - the plan executor (executor.py: _topo_sort, _build_context_prefix,  *)
(*     execute_plan) together with the code that hands plans to it         *)
(*     (planner.py generate_plan, plan_ui.py edit_plan, cli.py run_resume),*)
(*   - the research ParallelPool (research/parallel_pool.py),              *)
(*   - run_parallel (cli.py),                                              *)
(*   - the research round loop (research/research_mode.py).                *)
(* Each subsystem has its own specification; the variables of the other    *)
(* subsystems stay at their idle values.                                   *)
(***************************************************************************)
EXTENDS Integers, Sequences, FiniteSets, TLC

\* ------------------------------------------------------------------------
\* Bounds of the model
\* ------------------------------------------------------------------------
\* number of tasks of a plan; task ids are 1..NumTasks
NumTasks == 3

\* number of depends_on entries of a plan, all tasks together
MaxEdges == 2

\* ------------------------------------------------------------------------
\* Program constants
\* ------------------------------------------------------------------------
\* executor.py:51  "if len(out) > 2000"
MaxContextLen == 2000

\* ------------------------------------------------------------------------
\* Values
\* ------------------------------------------------------------------------
TaskIds == 1..NumTasks

\* ids that may appear in a depends_on list: the ids of the tasks and one id
\* that names no task of the plan
DepIds == 1..(NumTasks + 1)

\* A text (an agent's stdout) is abstracted to who wrote it (by), whether it
\* has leading/trailing whitespace (lead) and the number of characters that
\* remain after str.strip() (len).
Text(by, lead, len) == [by |-> by, lead |-> lead, len |-> len]

EmptyText == Text(0, FALSE, 0)

\* Python's None where a text is expected (dict.get of a missing key)
None == Text(-1, FALSE, -1)

\* the shapes of text an agent run can return: a text longer than the limit,
\* whitespace only, a short text, the empty text, a text of exactly the limit
Kinds ==
    << [lead |-> TRUE, len |-> MaxContextLen + 1],
       [lead |-> TRUE, len |-> 0],
       [lead |-> TRUE, len |-> 1],
       [lead |-> FALSE, len |-> 0],
       [lead |-> FALSE, len |-> MaxContextLen] >>

\* the text the agent run of task t returns when the run's texts are shifted by
\* shift: every task can return every shape
output_of(t, shift) ==
    LET k == Kinds[((t + shift) % Len(Kinds)) + 1]
    IN  Text(t, k.lead, k.len)

\* str.strip()
strip(s) == [s EXCEPT !.lead = FALSE]

\* truthiness of a Python str: the empty string is falsy
truthy(s) == s.lead \/ s.len > 0

\* ------------------------------------------------------------------------
\* Sequences helpers
\* ------------------------------------------------------------------------
InList(x, s) == \E i \in 1..Len(s) : s[i] = x

RECURSIVE SortedSeq(_)
\* sorted(ids)
SortedSeq(S) ==
    IF S = {} THEN <<>>
    ELSE LET m == CHOOSE x \in S : \A y \in S : x <= y
         IN  <<m>> \o SortedSeq(S \ {m})

SeqToSet(s) == {s[i] : i \in 1..Len(s)}

\* the depends_on lists of the model: non-decreasing lists over DepIds
DepLists ==
    UNION { { s \in [1..n -> DepIds] : \A i \in 1..n, j \in 1..n : i <= j => s[i] <= s[j] }
            : n \in 0..MaxEdges }

RECURSIVE DepPlans(_, _)
\* the depends_on lists of tasks 1..n, with at most budget entries in all
DepPlans(n, budget) ==
    IF n = 0 THEN {<<>>}
    ELSE UNION { { Append(p, d) : p \in DepPlans(n - 1, budget - Len(d)) }
                 : d \in {e \in DepLists : Len(e) <= budget} }

RECURSIVE TotalDeps(_, _)
\* number of depends_on entries of tasks 1..n
TotalDeps(ts, n) == IF n = 0 THEN 0 ELSE Len(ts[n].depends_on) + TotalDeps(ts, n - 1)

\* the task lists of the model: any depends_on lists, any parallel flags
TaskLists ==
    { [t \in TaskIds |-> [depends_on |-> dp[t], parallel |-> (t \in P)]]
      : dp \in DepPlans(NumTasks, MaxEdges), P \in SUBSET TaskIds }

\* ------------------------------------------------------------------------
\* State
\* ------------------------------------------------------------------------
\* executor.py: execute_plan, and the session it is handed
VARIABLES
    pc,              \* position of the main thread
    tasks,           \* plan["tasks"]: id -> [depends_on, parallel]
    session,         \* session_store.Session: status, completed_task_ids, task_outputs
    skip_ids,        \* execute_plan: set(skip_task_ids or [])
    waves,           \* execute_plan: _topo_sort(tasks)
    wave_idx,        \* execute_plan: index of the current wave (1-based)
    parallel_tasks,  \* execute_plan: parallel tasks of the current wave
    serial_tasks,    \* execute_plan: serial tasks of the current wave
    next_i,          \* index of the next task to spawn / to run serially
    async_results,   \* results written by the worker threads of the wave
    completed,       \* execute_plan: id -> output of its AgentResult, or None
    running,         \* tasks whose agent.run(...) is in progress
    agent_done,      \* tasks whose agent.run(...) has returned in this call
    run_count,       \* number of agent runs started per task in this call
    prompt,          \* context prefix handed to each task's agent run
    kind_shift       \* which text each task's agent run returns (see output_of)

execVars == <<pc, tasks, session, skip_ids, waves, wave_idx, parallel_tasks,
              serial_tasks, next_i, async_results, completed, running, agent_done,
              run_count, prompt, kind_shift>>

\* research/parallel_pool.py: ParallelPool.run
VARIABLES
    pool_pc,       \* position of the thread that called ParallelPool.run
    pool_tasks,    \* run(tasks, ...)
    criticize,     \* run(..., criticize=...)
    synthesize,    \* run(..., synthesize=...)
    threads,       \* state of each worker thread: "new", "alive" or "dead"
    pool_results,  \* the results dict: role -> stored agent result, or NoEntry
    pool_ran,      \* indices of the tasks whose agent.run(...) has returned
    join_i,        \* index of the thread the join loop waits for
    outputs        \* the outputs list

poolVars == <<pool_pc, pool_tasks, criticize, synthesize, threads, pool_results, pool_ran,
              join_i, outputs>>

\* cli.py: run_parallel
VARIABLES
    par_pc,        \* position of the thread that called run_parallel
    isatty,        \* sys.stderr.isatty()
    par_threads,   \* state of each agent's thread: "alive" or "dead"
    par_results,   \* the results list the agent threads append to
    par_join_i,    \* index of the thread the join loop waits for
    timed_out,     \* agents whose t.join(timeout=120) returned with the thread alive
    shown          \* the results printed, in the order printed

parVars == <<par_pc, isatty, par_threads, par_results, par_join_i, timed_out, shown>>

\* research/research_mode.py: run_research_session
VARIABLES
    res_pc,        \* position of run_research_session
    total_rounds,  \* run_research_session(goal, total_rounds, ...)
    interactive,   \* run_research_session(..., interactive=...)
    plan_only,     \* run_research_session(..., plan_only=...)
    recorded,      \* len(state.rounds) when run_research_session was called
    rounds,        \* state.rounds: the round_num of every recorded RoundResult
    range_next,    \* the next number the for loop's range yields
    round_num,     \* the loop variable
    started,       \* round numbers run_round was called with in this call
    step_i,        \* index in StepOrder of the last step called in this round
    events,        \* calls and returns of the step functions in this round
    conclusion,    \* rr.conclusion
    response       \* the user's last answer to the confirmation prompt

resVars == <<res_pc, total_rounds, interactive, plan_only, recorded, rounds, range_next,
             round_num, started, step_i, events, conclusion, response>>

\* planner.py: generate_plan
VARIABLES
    gp_pc,         \* position of generate_plan
    max_retries,   \* generate_plan(..., max_retries=...)
    attempt,       \* the loop variable: number of the current attempt
    raw_seen,      \* what _run_planner returned, one entry per call that returned
    last_error,    \* last_error
    gp_plan,       \* the plan generate_plan returned
    gp_raised      \* the exception generate_plan ended with

gpVars == <<gp_pc, max_retries, attempt, raw_seen, last_error, gp_plan, gp_raised>>

\* research/monitor.py: BackgroundMonitor
VARIABLES
    wait_pc,       \* position of the thread that called wait()
    show_spinner,  \* wait(show_spinner=...)
    spinner_idx,   \* _show_live_progress: spinner_idx % len(SPINNER)
    monitor_pc,    \* position of the thread running _monitor_loop
    process,       \* the monitored process: "running" or "exited"
    returncode,    \* process.returncode, -1 while it runs
    status,        \* progress.status: "running", "completed" or "failed"
    exit_code,     \* progress.exit_code, -1 for None
    log,           \* the log: not configured, or what its last lines match
    completion     \* patterns.completion_file: not configured, absent or present

monVars == <<wait_pc, show_spinner, spinner_idx, monitor_pc, process, returncode, status,
             exit_code, log, completion>>

\* cli.py: run_single
VARIABLES
    single_pc,     \* position of run_single
    single_agent,  \* agent.name
    spin_started,  \* spin_started = sys.stderr.isatty()
    completed_proc, \* what subprocess.run gave: found, stdout, stderr, returncode
    result,        \* the AgentResult agent.run returned
    single_printed, \* what run_single printed, in order
    exit_status    \* the status of sys.exit, -1 if run_single returned normally

singleVars == <<single_pc, single_agent, spin_started, completed_proc, result,
                single_printed, exit_status>>

\* what the actions of one entry point leave alone
otherThanExec == <<poolVars, parVars, resVars, gpVars, monVars, singleVars>>

otherThanPool == <<execVars, parVars, resVars, gpVars, monVars, singleVars>>

otherThanParallel == <<execVars, poolVars, resVars, gpVars, monVars, singleVars>>

otherThanResearch == <<execVars, poolVars, parVars, gpVars, monVars, singleVars>>

otherThanPlanner == <<execVars, poolVars, parVars, resVars, monVars, singleVars>>

otherThanMonitor == <<execVars, poolVars, parVars, resVars, gpVars, singleVars>>

otherThanSingle == <<execVars, poolVars, parVars, resVars, gpVars, monVars>>

\* ------------------------------------------------------------------------
\* planner.py
\* ------------------------------------------------------------------------
\* max(deps) if deps else 0
max_dep(deps) ==
    IF Len(deps) = 0 THEN 0
    ELSE CHOOSE m \in SeqToSet(deps) : \A d \in SeqToSet(deps) : d <= m

\* _auto_detect_parallel_tasks: tasks that share their maximum dependency id
\* with another task are marked parallel
_auto_detect_parallel_tasks(ts) ==
    [t \in TaskIds |->
        IF \E u \in TaskIds : u # t /\ max_dep(ts[u].depends_on) = max_dep(ts[t].depends_on)
        THEN [ts[t] EXCEPT !.parallel = TRUE]
        ELSE ts[t]]

\* ------------------------------------------------------------------------
\* executor.py: _topo_sort
\* ------------------------------------------------------------------------
RECURSIVE topo_no_dump(_, _, _)
\* a broken while loop: without lines 75-77, tasks that never reach in-degree
\* zero are left out
topo_no_dump(ts, remaining, in_degree) ==
    LET zero == {tid \in remaining : in_degree[tid] = 0}
        rest == remaining \ zero
        degree2 == [t \in TaskIds |->
                      IF t \in rest
                      THEN in_degree[t]
                           - Cardinality({tid \in zero : InList(tid, ts[t].depends_on)})
                      ELSE in_degree[t]]
    IN  IF zero = {} THEN <<>>
        ELSE <<SortedSeq(zero)>> \o topo_no_dump(ts, rest, degree2)

RECURSIVE topo_loop(_, _, _)
\* the while loop of _topo_sort
topo_loop(ts, remaining, in_degree) ==
    IF remaining = {} THEN <<>>
    ELSE LET zero == {tid \in remaining : in_degree[tid] = 0}
             wave_ids == IF zero = {} THEN remaining ELSE zero
             rest == remaining \ wave_ids
             degree2 == [t \in TaskIds |->
                           IF t \in rest
                           THEN in_degree[t]
                                - Cardinality({tid \in wave_ids : InList(tid, ts[t].depends_on)})
                           ELSE in_degree[t]]
         IN  <<SortedSeq(wave_ids)>> \o topo_loop(ts, rest, degree2)

\* a broken _topo_sort: every task in one wave
topo_sort_one_wave(ts) == <<SortedSeq(TaskIds)>>

\* _topo_sort(tasks): the waves, each a list of task ids sorted by id
_topo_sort(ts) ==
    topo_loop(ts, TaskIds, [t \in TaskIds |-> Len(ts[t].depends_on)])

\* ------------------------------------------------------------------------
\* executor.py: _build_context_prefix
\* ------------------------------------------------------------------------
\* the part of the prefix that carries the output of dependency dep_id
dep_part(dep_id, out) ==
    [task |-> dep_id,
     by |-> out.by,
     shown |-> IF out.len > MaxContextLen THEN MaxContextLen ELSE out.len,
     truncated |-> out.len > MaxContextLen]

RECURSIVE dep_parts(_, _, _)
\* the loop over depends_on
dep_parts(done, depends_on, i) ==
    IF i > Len(depends_on) THEN <<>>
    ELSE LET dep_id == depends_on[i]
             res == IF dep_id \in DOMAIN done THEN done[dep_id] ELSE None
         IN  (IF res # None /\ strip(res).len > 0
              THEN <<dep_part(dep_id, strip(res))>>
              ELSE <<>>)
             \o dep_parts(done, depends_on, i + 1)

\* _build_context_prefix(completed, depends_on, additional_context): the list of
\* parts of the prefix (the empty list is the empty prefix)
_build_context_prefix(done, depends_on, additional_context) ==
    (IF truthy(additional_context) /\ strip(additional_context).len > 0
     THEN <<[task |-> 0, by |-> 0, shown |-> strip(additional_context).len,
             truncated |-> FALSE]>>
     ELSE <<>>)
    \o dep_parts(done, depends_on, 1)

\* ------------------------------------------------------------------------
\* session_store.py
\* ------------------------------------------------------------------------
\* Session.mark_task_done(task_id, output)
mark_task_done(s, task_id, output) ==
    [s EXCEPT !.completed_task_ids = @ \cup {task_id},
              !.task_outputs = [@ EXCEPT ![task_id] = output]]

RECURSIVE mark_all_done(_, _, _, _)
\* mark_task_done for the tasks ids[i..] that have a result
mark_all_done(s, ids, results, i) ==
    IF i > Len(ids) THEN s
    ELSE mark_all_done(
            IF results[ids[i]] # None THEN mark_task_done(s, ids[i], results[ids[i]]) ELSE s,
            ids, results, i + 1)

\* Session.mark_completed()
mark_completed(s) == [s EXCEPT !.status = "completed"]

\* a session as new_planning_session creates it
NewSession ==
    [status |-> "in_progress", completed_task_ids |-> {},
     task_outputs |-> [t \in TaskIds |-> None]]

\* ------------------------------------------------------------------------
\* Initial states
\* ------------------------------------------------------------------------
NoTasks == [t \in TaskIds |-> None]

NoPrompts == [t \in TaskIds |-> <<>>]

\* run_goal: the planner's JSON is any task list
InitExec ==
    /\ pc = "generate"
    /\ tasks \in TaskLists
    /\ kind_shift = 0
    /\ session = NewSession
    /\ skip_ids = {}
    /\ waves = <<>>
    /\ wave_idx = 0
    /\ parallel_tasks = <<>>
    /\ serial_tasks = <<>>
    /\ next_i = 0
    /\ async_results = NoTasks
    /\ completed = NoTasks
    /\ running = {}
    /\ agent_done = {}
    /\ run_count = [t \in TaskIds |-> 0]
    /\ prompt = NoPrompts

\* ------------------------------------------------------------------------
\* planner.py generate_plan, plan_ui.py edit_plan, cli.py run_goal / run_resume
\* ------------------------------------------------------------------------
execScratch == <<waves, wave_idx, parallel_tasks, serial_tasks, next_i, async_results,
                 completed, running, agent_done, run_count, prompt>>

\* the locals of execute_plan and the worker threads are gone with the process
ProcessGone ==
    /\ waves' = <<>>
    /\ wave_idx' = 0
    /\ parallel_tasks' = <<>>
    /\ serial_tasks' = <<>>
    /\ next_i' = 0
    /\ async_results' = NoTasks
    /\ completed' = NoTasks
    /\ running' = {}
    /\ agent_done' = {}
    /\ run_count' = [t \in TaskIds |-> 0]
    /\ prompt' = NoPrompts

\* generate_plan (auto_parallel=True), then run_goal opens the editor
GeneratePlan ==
    /\ pc = "generate"
    /\ tasks' = _auto_detect_parallel_tasks(tasks)
    /\ pc' = "edit"
    /\ UNCHANGED <<session, skip_ids, kind_shift, execScratch>>
    /\ UNCHANGED otherThanExec

\* the plans of the model: at most MaxEdges depends_on entries
in_bounds(ts) == TotalDeps(ts, NumTasks) <= MaxEdges

\* editor command: dep <n> <ids...>
EditDep ==
    /\ pc = "edit"
    /\ \E tid \in TaskIds, deps \in DepLists :
          /\ in_bounds([tasks EXCEPT ![tid].depends_on = deps])
          /\ tasks' = [tasks EXCEPT ![tid].depends_on = deps]
    /\ UNCHANGED <<pc, session, skip_ids, kind_shift, execScratch>>
    /\ UNCHANGED otherThanExec

\* editor command: p <n>
EditParallel ==
    /\ pc = "edit"
    /\ \E tid \in TaskIds :
          tasks' = [tasks EXCEPT ![tid].parallel = ~tasks[tid].parallel]
    /\ UNCHANGED <<pc, session, skip_ids, kind_shift, execScratch>>
    /\ UNCHANGED otherThanExec

\* the user confirms the plan; run_goal calls execute_plan(final_plan, session=session).
\* What the agents will answer is fixed here.
ConfirmPlan(shifts) ==
    /\ pc = "edit"
    /\ pc' = "execute"
    /\ skip_ids' = {}
    /\ kind_shift' \in shifts
    /\ UNCHANGED <<tasks, session, execScratch>>
    /\ UNCHANGED otherThanExec

\* Ctrl-C (or a kill) while execute_plan runs: nothing in executor.py or cli.py
\* catches it, the process ends and the session file stays as last saved
Interrupt ==
    /\ pc \in {"wave", "spawn", "join", "serial", "serial_run"}
    /\ pc' = "interrupted"
    /\ skip_ids' = {}
    /\ ProcessGone
    /\ UNCHANGED <<tasks, session, kind_shift>>
    /\ UNCHANGED otherThanExec

\* run_resume on a planning session that is not completed:
\* execute_plan(session.plan, session=session, skip_task_ids=done_ids)
\* a broken line 950: no stored session counts as completed
never_completed(s) == FALSE

\* cli.py line 950: session.status == "completed"
already_completed(s) == s.status = "completed"

RunResume ==
    /\ pc \in {"interrupted", "done"}
    /\ ~already_completed(session)
    /\ pc' = "execute"
    /\ skip_ids' = session.completed_task_ids
    /\ UNCHANGED <<tasks, session, kind_shift, execScratch>>
    /\ UNCHANGED otherThanExec

\* run_resume on a completed planning session: print the plan and return
RunResumeCompleted ==
    /\ pc \in {"interrupted", "done"}
    /\ already_completed(session)
    /\ pc' = "returned"
    /\ skip_ids' = {}
    /\ ProcessGone
    /\ UNCHANGED <<tasks, session, kind_shift>>
    /\ UNCHANGED otherThanExec

\* ------------------------------------------------------------------------
\* executor.py: execute_plan
\* ------------------------------------------------------------------------
\* lines 154-170: the waves, and completed pre-populated from the session
ExecutePlanEnter ==
    /\ pc = "execute"
    /\ waves' = _topo_sort(tasks)
    /\ completed' = [t \in TaskIds |->
                        IF t \in skip_ids /\ session.task_outputs[t] # None
                           /\ truthy(session.task_outputs[t])
                        THEN session.task_outputs[t]
                        ELSE None]
    /\ wave_idx' = 1
    /\ pc' = "wave"
    /\ UNCHANGED <<tasks, session, skip_ids, kind_shift, parallel_tasks, serial_tasks,
                   next_i, async_results, running, agent_done, run_count, prompt>>
    /\ UNCHANGED otherThanExec

\* todo_wave of the current wave
todo_wave(wave) == SelectSeq(wave, LAMBDA t : t \notin skip_ids)

\* a broken line 190: a parallel task is parallel even when alone
split_parallel_always(todo) == SelectSeq(todo, LAMBDA t : tasks[t].parallel)

\* line 190: parallel_tasks
split_parallel(todo) == SelectSeq(todo, LAMBDA t : tasks[t].parallel /\ Len(todo) > 1)

\* line 191: serial_tasks
split_serial(todo) == SelectSeq(todo, LAMBDA t : ~tasks[t].parallel \/ Len(todo) = 1)

\* lines 184-191: next wave; a wave with nothing to do is skipped
WaveBegin ==
    /\ pc = "wave"
    /\ wave_idx <= Len(waves)
    /\ LET todo == todo_wave(waves[wave_idx])
       IN  IF Len(todo) = 0
           THEN /\ wave_idx' = wave_idx + 1
                /\ UNCHANGED <<pc, parallel_tasks, serial_tasks, next_i, async_results>>
           ELSE /\ parallel_tasks' = split_parallel(todo)
                /\ serial_tasks' = split_serial(todo)
                /\ async_results' = NoTasks
                /\ next_i' = 1
                /\ pc' = IF Len(split_parallel(todo)) > 0 THEN "spawn" ELSE "serial"
                /\ UNCHANGED wave_idx
    /\ UNCHANGED <<tasks, session, skip_ids, kind_shift, waves, completed, running,
                   agent_done, run_count, prompt>>
    /\ UNCHANGED otherThanExec

\* lines 198-205: build the context and start the worker thread of the next
\* parallel task
SpawnTask ==
    /\ pc = "spawn"
    /\ next_i <= Len(parallel_tasks)
    /\ LET t == parallel_tasks[next_i]
       IN  /\ prompt' = [prompt EXCEPT ![t] =
                            _build_context_prefix(completed, tasks[t].depends_on, EmptyText)]
           /\ running' = running \cup {t}
           /\ run_count' = [run_count EXCEPT ![t] = @ + 1]
    /\ next_i' = next_i + 1
    /\ pc' = IF next_i = Len(parallel_tasks) THEN "join" ELSE "spawn"
    /\ UNCHANGED <<tasks, session, skip_ids, kind_shift, waves, wave_idx, parallel_tasks,
                   serial_tasks, async_results, completed, agent_done>>
    /\ UNCHANGED otherThanExec

\* _run_task_async._worker: the agent run of a worker thread returns
WorkerFinish ==
    /\ pc \in {"spawn", "join"}
    /\ \E t \in running :
          /\ async_results' = [async_results EXCEPT ![t] = output_of(t, kind_shift)]
          /\ running' = running \ {t}
          /\ agent_done' = agent_done \cup {t}
    /\ UNCHANGED <<pc, tasks, session, skip_ids, kind_shift, waves, wave_idx,
                   parallel_tasks, serial_tasks, next_i, completed, run_count, prompt>>
    /\ UNCHANGED otherThanExec

\* a broken join: the main thread does not wait for the workers
joined_nothing(ids) == TRUE

\* lines 206-207: "for th in threads: th.join()" returns once every worker
\* thread of the wave has terminated
joined(ids) == \A t \in SeqToSet(ids) : t \notin running

\* a broken collection loop: results of parallel tasks are dropped
collect_nothing(done, ids, results) == done

\* lines 208-211: completed[t["id"]] = res for the results of the wave
collect(done, ids, results) ==
    [t \in TaskIds |-> IF InList(t, ids) /\ results[t] # None THEN results[t] ELSE done[t]]

\* lines 206-215: join the workers, then record their results
JoinAndCollect ==
    /\ pc = "join"
    /\ joined(parallel_tasks)
    /\ completed' = collect(completed, parallel_tasks, async_results)
    /\ session' = mark_all_done(session, parallel_tasks, async_results, 1)
    /\ next_i' = 1
    /\ pc' = "serial"
    /\ UNCHANGED <<tasks, skip_ids, kind_shift, waves, wave_idx, parallel_tasks,
                   serial_tasks, async_results, running, agent_done, run_count, prompt>>
    /\ UNCHANGED otherThanExec

\* lines 218-225: build the context and start the agent run of the next serial task
SerialStart ==
    /\ pc = "serial"
    /\ next_i <= Len(serial_tasks)
    /\ LET t == serial_tasks[next_i]
       IN  /\ prompt' = [prompt EXCEPT ![t] =
                            _build_context_prefix(completed, tasks[t].depends_on, EmptyText)]
           /\ running' = running \cup {t}
           /\ run_count' = [run_count EXCEPT ![t] = @ + 1]
    /\ pc' = "serial_run"
    /\ UNCHANGED <<tasks, session, skip_ids, kind_shift, waves, wave_idx, parallel_tasks,
                   serial_tasks, next_i, async_results, completed, agent_done>>
    /\ UNCHANGED otherThanExec

\* lines 225-230: the agent run returns; record the result
SerialFinish ==
    /\ pc = "serial_run"
    /\ LET t == serial_tasks[next_i]
       IN  /\ completed' = [completed EXCEPT ![t] = output_of(t, kind_shift)]
           /\ session' = mark_task_done(session, t, output_of(t, kind_shift))
           /\ running' = running \ {t}
           /\ agent_done' = agent_done \cup {t}
    /\ next_i' = next_i + 1
    /\ pc' = "serial"
    /\ UNCHANGED <<tasks, skip_ids, kind_shift, waves, wave_idx, parallel_tasks,
                   serial_tasks, async_results, run_count, prompt>>
    /\ UNCHANGED otherThanExec

\* end of the body of "for wave_idx, wave in enumerate(waves)"
WaveEnd ==
    /\ pc = "serial"
    /\ next_i > Len(serial_tasks)
    /\ wave_idx' = wave_idx + 1
    /\ pc' = "wave"
    /\ UNCHANGED <<tasks, session, skip_ids, kind_shift, waves, parallel_tasks,
                   serial_tasks, next_i, async_results, completed, running, agent_done,
                   run_count, prompt>>
    /\ UNCHANGED otherThanExec

\* lines 232-242: all waves done; session.mark_completed()
ExecuteFinish ==
    /\ pc = "wave"
    /\ wave_idx > Len(waves)
    /\ session' = mark_completed(session)
    /\ pc' = "done"
    /\ UNCHANGED <<tasks, skip_ids, kind_shift, waves, wave_idx, parallel_tasks,
                   serial_tasks, next_i, async_results, completed, running, agent_done,
                   run_count, prompt>>
    /\ UNCHANGED otherThanExec

NextExec(shifts) ==
    \/ GeneratePlan
    \/ EditDep
    \/ EditParallel
    \/ ConfirmPlan(shifts)
    \/ Interrupt
    \/ RunResume
    \/ RunResumeCompleted
    \/ ExecutePlanEnter
    \/ WaveBegin
    \/ SpawnTask
    \/ WorkerFinish
    \/ JoinAndCollect
    \/ SerialStart
    \/ SerialFinish
    \/ WaveEnd
    \/ ExecuteFinish

\* ------------------------------------------------------------------------
\* Properties of execute_plan
\* ------------------------------------------------------------------------
deps_of(t) == SeqToSet(tasks[t].depends_on)

RECURSIVE closure(_, _)
\* the tasks reachable from the set S along depends_on, in at most n more steps
closure(S, n) ==
    IF n = 0 THEN S
    ELSE closure(S \cup UNION {deps_of(t) \cap TaskIds : t \in S}, n - 1)

\* the tasks t depends on, directly or through a chain of depends_on
trans_deps(t) == closure(deps_of(t) \cap TaskIds, NumTasks)

no_repetition(s) == \A i \in 1..Len(s), j \in 1..Len(s) : i # j => s[i] # s[j]

\* depends_on lists name only other tasks of the plan, without repetition and
\* without cycles
ValidPlan ==
    \A t \in TaskIds :
        /\ deps_of(t) \subseteq TaskIds \ {t}
        /\ no_repetition(tasks[t].depends_on)
        /\ t \notin trans_deps(t)

\* the wave _topo_sort put task t in
wave_of(t) == CHOOSE i \in 1..Len(waves) : InList(t, waves[i])

\* C1: in a valid plan, while the agent run of a task is in progress every task
\* of its depends_on has finished its agent run or was skipped as already done
C1_DependencyOrder ==
    ValidPlan =>
        \A t \in running : \A d \in deps_of(t) : d \in agent_done \/ d \in skip_ids

\* a task runs after a dependency that ran in this call and beside one that was skipped
C1_Witness ==
    /\ ValidPlan
    /\ \E t \in running :
          /\ \E d \in deps_of(t) : d \in agent_done
          /\ \E d \in deps_of(t) : d \in skip_ids

\* C2: while the agent run of a task of wave i is in progress, every task that
\* was run in an earlier wave has finished its agent run
C2_WaveOrder ==
    \A t \in running : \A u \in TaskIds :
        (run_count[u] > 0 /\ wave_of(u) < wave_of(t)) => (u \in agent_done /\ u \notin running)

\* a task of a later wave runs after a parallel wave of two tasks
C2_Witness ==
    \E t \in running :
        Cardinality({u \in agent_done : wave_of(u) < wave_of(t) /\ tasks[u].parallel}) >= 2

\* C3: two tasks whose agent runs overlap do not depend on each other, directly
\* or through a chain of depends_on
C3_ParallelIndependent ==
    \A t \in running : \A u \in running :
        t # u => (u \notin trans_deps(t) /\ t \notin trans_deps(u))

\* the part of a prompt prefix that carries the text out of dependency d
expected_part(d, out) ==
    [task |-> d,
     by |-> out.by,
     shown |-> IF out.len > MaxContextLen THEN MaxContextLen ELSE out.len,
     truncated |-> out.len > MaxContextLen]

\* the output of dependency d as the agent returned it: stored in the session
\* file for a skipped task, returned in this call otherwise
output_text(d) == IF d \in skip_ids THEN session.task_outputs[d] ELSE output_of(d, kind_shift)

C14_ResumeCompletedIsNoOp ==
    [][session.status = "completed" =>
          /\ pc' = "returned"
          /\ session' = session
          /\ running' = {}
          /\ \A t \in TaskIds : run_count'[t] = 0]_execVars

\* a completed session with every task done has been resumed
C14_Witness ==
    /\ pc = "returned"
    /\ session.status = "completed"
    /\ session.completed_task_ids = TaskIds
    /\ \A t \in TaskIds : run_count[t] = 0

RECURSIVE resolvable(_, _)
\* the tasks whose in-degree reaches zero: depends_on names only tasks, each
\* once, and each of them reaches in-degree zero itself
resolvable(R, n) ==
    IF n = 0 THEN R
    ELSE resolvable({t \in TaskIds : /\ no_repetition(tasks[t].depends_on)
                                      /\ deps_of(t) \subseteq R}, n - 1)

never_zero == TaskIds \ resolvable({}, NumTasks)

\* positions of task t in the waves ws
positions(ws, t) == {<<i, j>> \in (1..Len(ws)) \X (1..NumTasks) :
                        j <= Len(ws[i]) /\ ws[i][j] = t}

\* C15: for every task list (ids are unique), whatever its depends_on lists
\* (cycles, self-dependencies, ids that name no task, repeated ids),
\* _topo_sort returns non-empty waves that together contain every task
\* exactly once; the tasks that never reach in-degree zero are together the
\* final wave, and execute_plan works on these waves.
C15_TopoSortTotal ==
    LET ws == _topo_sort(tasks)
    IN  /\ \A i \in 1..Len(ws) : Len(ws[i]) > 0
        /\ \A t \in TaskIds : Cardinality(positions(ws, t)) = 1
        /\ never_zero # {} => ws[Len(ws)] = SortedSeq(never_zero)
        /\ \A i \in 1..Len(ws) : \A t \in SeqToSet(ws[i]) :
                t \in never_zero => i = Len(ws)
        /\ pc = "wave" => waves = ws

\* execute_plan works on the waves of a plan with a dependency cycle, an id
\* that names no task, and a task that can run
C15_Witness ==
    /\ pc = "wave"
    /\ waves = _topo_sort(tasks)
    /\ \E t \in TaskIds : t \in trans_deps(t)
    /\ \E t \in TaskIds : ~(deps_of(t) \subseteq TaskIds)
    /\ never_zero # {} /\ never_zero # TaskIds

\* depends_on is acyclic once ids that name no task and repeated ids are ignored
OtherwiseAcyclic == \A t \in TaskIds : t \notin trans_deps(t)

\* C16: in a plan that is acyclic apart from depends_on entries that name no
\* task or repeat an id, while the agent run of a task is in progress every
\* existing task of its depends_on has finished its agent run or was skipped
\* as already done.
C16_UnknownDepsKeepOrder ==
    OtherwiseAcyclic =>
        \A t \in running :
            \A d \in deps_of(t) \cap TaskIds : d \in agent_done \/ d \in skip_ids

\* execute_plan is not running (the specifications of the other entry points)
IdleExec ==
    /\ pc = "idle"
    /\ tasks = <<>>
    /\ kind_shift = 0
    /\ session = NewSession
    /\ skip_ids = {}
    /\ waves = <<>>
    /\ wave_idx = 0
    /\ parallel_tasks = <<>>
    /\ serial_tasks = <<>>
    /\ next_i = 0
    /\ async_results = <<>>
    /\ completed = <<>>
    /\ running = {}
    /\ agent_done = {}
    /\ run_count = <<>>
    /\ prompt = <<>>

\* ------------------------------------------------------------------------
\* research/parallel_pool.py: ParallelPool.run
\* ------------------------------------------------------------------------
\* bound: longest task list handed to ParallelPool.run
MaxPoolTasks == 3

\* PoolTask.role values; steps.py builds them from analyst numbers or from the
\* experiment names an agent proposed, so two tasks of a list can share a role
PoolRoles == {"exp-a", "exp-b"}

PoolTask(role) == [role |-> role]

PoolTaskLists == UNION {[1..n -> {PoolTask(r) : r \in PoolRoles}] : n \in 0..MaxPoolTasks}

\* results.get(task.role) of a role nothing was stored for
NoEntry == [run |-> 0, success |-> FALSE]

\* state.AgentOutput; output is the number of the agent run whose text it carries:
\* i for the run of the i-th task, Len(tasks) + 1 for the critic's run,
\* Len(tasks) + 2 for the synthesizer's run, 0 for the empty string
AgentOutput(role, output, success) == [role |-> role, output |-> output, success |-> success]

InitPool ==
    /\ pool_pc = "call"
    /\ pool_tasks \in PoolTaskLists
    /\ criticize \in BOOLEAN
    /\ synthesize \in BOOLEAN
    /\ threads = [i \in 1..Len(pool_tasks) |-> "new"]
    /\ pool_results = [r \in PoolRoles |-> NoEntry]
    /\ pool_ran = {}
    /\ join_i = 1
    /\ outputs = <<>>

IdlePool ==
    /\ pool_pc = "idle"
    /\ pool_tasks = <<>>
    /\ criticize = FALSE
    /\ synthesize = FALSE
    /\ threads = <<>>
    /\ pool_results = <<>>
    /\ pool_ran = {}
    /\ join_i = 0
    /\ outputs = <<>>

\* if not tasks: return []
PoolReturnEmpty ==
    /\ pool_pc = "call"
    /\ pool_tasks = <<>>
    /\ pool_pc' = "returned"
    /\ UNCHANGED <<pool_tasks, criticize, synthesize, threads, pool_results, pool_ran, join_i,
                   outputs>>
    /\ UNCHANGED otherThanPool

\* for t in threads: t.start()
PoolStartThread ==
    /\ pool_pc = "call"
    /\ \E i \in 1..Len(pool_tasks) :
        /\ threads[i] = "new"
        /\ \A j \in 1..(i - 1) : threads[j] # "new"
        /\ threads' = [threads EXCEPT ![i] = "alive"]
        /\ pool_pc' = IF i = Len(pool_tasks) THEN "join" ELSE "call"
    /\ UNCHANGED <<pool_tasks, criticize, synthesize, pool_results, pool_ran, join_i, outputs>>
    /\ UNCHANGED otherThanPool

\* _worker: res = agent.run(...); with lock: results[task.role] = (task, res)
PoolWorkerFinish ==
    /\ pool_pc \in {"call", "join"}
    /\ \E i \in 1..Len(pool_tasks), ok \in BOOLEAN :
        /\ threads[i] = "alive"
        /\ pool_results' = [pool_results EXCEPT
                             ![pool_tasks[i].role] = [run |-> i, success |-> ok]]
        /\ pool_ran' = pool_ran \cup {i}
        /\ threads' = [threads EXCEPT ![i] = "dead"]
    /\ UNCHANGED <<pool_pc, pool_tasks, criticize, synthesize, join_i, outputs>>
    /\ UNCHANGED otherThanPool

\* _worker: agent.run(...) raises, the thread ends without storing a result
PoolWorkerRaise ==
    /\ pool_pc \in {"call", "join"}
    /\ \E i \in 1..Len(pool_tasks) :
        /\ threads[i] = "alive"
        /\ threads' = [threads EXCEPT ![i] = "dead"]
    /\ UNCHANGED <<pool_pc, pool_tasks, criticize, synthesize, pool_results, pool_ran, join_i,
                   outputs>>
    /\ UNCHANGED otherThanPool

\* a single t.join(timeout=0.1) that is not repeated
join_once(thread) == TRUE

\* while t.is_alive(): t.join(timeout=0.1)
join_loop(thread) == thread = "dead"

\* for t in threads: the join loop leaves thread join_i behind
PoolJoin ==
    /\ pool_pc = "join"
    /\ join_i <= Len(pool_tasks)
    /\ join_loop(threads[join_i])
    /\ join_i' = join_i + 1
    /\ UNCHANGED <<pool_pc, pool_tasks, criticize, synthesize, threads, pool_results, pool_ran,
                   outputs>>
    /\ UNCHANGED otherThanPool

\* except KeyboardInterrupt: ...; raise
PoolInterrupt ==
    /\ pool_pc = "join"
    /\ pool_pc' = "interrupted"
    /\ UNCHANGED <<pool_tasks, criticize, synthesize, threads, pool_results, pool_ran, join_i,
                   outputs>>
    /\ UNCHANGED otherThanPool

\* for task in tasks: entry = results.get(task.role); outputs.append(...)
build_outputs(ts, res) ==
    [i \in 1..Len(ts) |->
        LET entry == res[ts[i].role]
        IN  IF entry = NoEntry
            THEN AgentOutput(ts[i].role, 0, FALSE)
            ELSE AgentOutput(ts[i].role, entry.run, entry.success)]

\* where run goes once outputs holds outs and the critic has (not) run
after_outputs(outs, critic_done) ==
    IF ~critic_done /\ criticize /\ Len(outs) >= 1 THEN "critic"
    ELSE IF synthesize /\ Len(outs) > 1 THEN "synth"
    ELSE "returned"

\* the join loop is over: build the outputs list
PoolBuildOutputs ==
    /\ pool_pc = "join"
    /\ join_i > Len(pool_tasks)
    /\ outputs' = build_outputs(pool_tasks, pool_results)
    /\ pool_pc' = after_outputs(outputs', FALSE)
    /\ UNCHANGED <<pool_tasks, criticize, synthesize, threads, pool_results, pool_ran, join_i>>
    /\ UNCHANGED otherThanPool

\* outputs = self._criticize(outputs, critic_prompt)
PoolCriticize ==
    /\ pool_pc = "critic"
    /\ \E ok \in BOOLEAN :
        outputs' = Append(outputs, AgentOutput("critic", Len(pool_tasks) + 1, ok))
    /\ pool_pc' = after_outputs(outputs', TRUE)
    /\ UNCHANGED <<pool_tasks, criticize, synthesize, threads, pool_results, pool_ran, join_i>>
    /\ UNCHANGED otherThanPool

\* outputs = self._synthesize(outputs, synthesis_prompt); return outputs
PoolSynthesize ==
    /\ pool_pc = "synth"
    /\ \E ok \in BOOLEAN :
        outputs' = Append(outputs, AgentOutput("synthesizer", Len(pool_tasks) + 2, ok))
    /\ pool_pc' = "returned"
    /\ UNCHANGED <<pool_tasks, criticize, synthesize, threads, pool_results, pool_ran, join_i>>
    /\ UNCHANGED otherThanPool

NextPool ==
    \/ PoolReturnEmpty
    \/ PoolStartThread
    \/ PoolWorkerFinish
    \/ PoolWorkerRaise
    \/ PoolJoin
    \/ PoolInterrupt
    \/ PoolBuildOutputs
    \/ PoolCriticize
    \/ PoolSynthesize

\* ------------------------------------------------------------------------
\* Properties of ParallelPool.run
\* ------------------------------------------------------------------------
\* C6: ParallelPool.run builds its outputs, runs the critic or the synthesizer and
\* returns only when every task's worker thread has been started and has terminated
\* (a KeyboardInterrupt leaves run by the exception instead)
C6_WorkersTerminated ==
    pool_pc \in {"critic", "synth", "returned"} =>
        /\ DOMAIN threads = 1..Len(pool_tasks)
        /\ \A i \in 1..Len(pool_tasks) : threads[i] = "dead"

\* run is about to call the critic after the workers of several tasks have ended
C6_Witness ==
    /\ pool_pc = "critic"
    /\ Len(pool_tasks) >= 2
    /\ \A i \in 1..Len(pool_tasks) : threads[i] = "dead"

\* C7: ParallelPool.run returns one output per task, the i-th output having the role
\* of the i-th task and carrying the text its agent run produced, also when several
\* tasks of the list share a role
C7_OutputPerTask ==
    pool_pc = "returned" =>
        /\ Len(outputs) >= Len(pool_tasks)
        /\ \A i \in 1..Len(pool_tasks) :
            /\ outputs[i].role = pool_tasks[i].role
            /\ i \in pool_ran => outputs[i].output = i

\* ------------------------------------------------------------------------
\* cli.py: run_parallel
\* ------------------------------------------------------------------------
\* threads = [claude.run_async(...), codex.run_async(...)], in this order
AgentNames == <<"claude", "codex">>

Agents == SeqToSet(AgentNames)

\* base.AgentResult as run_parallel reads it: agent_name, success and
\* whether output.strip() is empty
AgentResult(agent_name, success, blank) ==
    [agent_name |-> agent_name, success |-> success, blank |-> blank]

\* run_async has started both threads when run_parallel reaches its join loop
InitParallel ==
    /\ par_pc = "join"
    /\ isatty \in BOOLEAN
    /\ par_threads = [a \in Agents |-> "alive"]
    /\ par_results = <<>>
    /\ par_join_i = 1
    /\ timed_out = {}
    /\ shown = <<>>

IdleParallel ==
    /\ par_pc = "idle"
    /\ isatty = FALSE
    /\ par_threads = <<>>
    /\ par_results = <<>>
    /\ par_join_i = 0
    /\ timed_out = {}
    /\ shown = <<>>

\* run_async._worker: result = self.run(task, cwd); results.append(result)
ParThreadFinish ==
    /\ par_pc \in {"join", "spin_join", "print", "critic"}
    /\ \E a \in Agents, success \in BOOLEAN, blank \in BOOLEAN :
        /\ par_threads[a] = "alive"
        /\ par_threads' = [par_threads EXCEPT ![a] = "dead"]
        /\ par_results' = Append(par_results, AgentResult(a, success, blank))
    /\ UNCHANGED <<par_pc, isatty, par_join_i, timed_out, shown>>
    /\ UNCHANGED otherThanParallel

\* run_async._worker: self.run raises anything but FileNotFoundError (the agents
\* catch only that), the thread ends without appending
ParThreadRaise ==
    /\ par_pc \in {"join", "spin_join", "print", "critic"}
    /\ \E a \in Agents :
        /\ par_threads[a] = "alive"
        /\ par_threads' = [par_threads EXCEPT ![a] = "dead"]
    /\ UNCHANGED <<par_pc, isatty, par_results, par_join_i, timed_out, shown>>
    /\ UNCHANGED otherThanParallel

\* t.join(timeout=120) returns: the thread has ended, or 120 s have passed
join_timeout(thread, elapsed) == thread = "dead" \/ elapsed

\* for t in threads: t.join(timeout=120)
ParJoin ==
    /\ par_pc = "join"
    /\ \E elapsed \in BOOLEAN :
        LET a == AgentNames[par_join_i]
        IN  /\ elapsed => par_threads[a] = "alive"
            /\ join_timeout(par_threads[a], elapsed)
            /\ timed_out' = IF elapsed THEN timed_out \cup {a} ELSE timed_out
    /\ par_join_i' = par_join_i + 1
    /\ par_pc' = IF par_join_i = Len(AgentNames) THEN "spin_join" ELSE "join"
    /\ UNCHANGED <<isatty, par_threads, par_results, shown>>
    /\ UNCHANGED otherThanParallel

\* done.set(); spin_t.join(timeout=0.5): spin_t was started only if
\* sys.stderr.isatty(), and joining a thread that was never started raises
\* RuntimeError, which nothing catches
ParSpinJoin ==
    /\ par_pc = "spin_join"
    /\ par_pc' = IF isatty THEN "print" ELSE "raised"
    /\ UNCHANGED <<isatty, par_threads, par_results, par_join_i, timed_out, shown>>
    /\ UNCHANGED otherThanParallel

\* a sort that keeps only claude's results
sorted_claude_only(res) == SelectSeq(res, LAMBDA r : r.agent_name = "claude")

\* results.sort(key=lambda r: 0 if r.agent_name == "claude" else 1)
sorted_results(res) ==
    SelectSeq(res, LAMBDA r : r.agent_name = "claude")
        \o SelectSeq(res, LAMBDA r : r.agent_name # "claude")

\* successful = [r for r in results if r.success and r.output.strip()]
successful(res) == SelectSeq(res, LAMBDA r : r.success /\ ~r.blank)

\* results.sort(...); for r in results: print(r.display(...))
ParPrint ==
    /\ par_pc = "print"
    /\ shown' = sorted_results(par_results)
    /\ par_pc' = IF Len(successful(shown')) >= 1 THEN "critic" ELSE "done"
    /\ UNCHANGED <<isatty, par_threads, par_results, par_join_i, timed_out>>
    /\ UNCHANGED otherThanParallel

\* critic_result = claude.run(critic_prompt, cwd=cwd); print(...)
ParCritic ==
    /\ par_pc = "critic"
    /\ par_pc' = "done"
    /\ UNCHANGED <<isatty, par_threads, par_results, par_join_i, timed_out, shown>>
    /\ UNCHANGED otherThanParallel

NextParallel ==
    \/ ParThreadFinish
    \/ ParThreadRaise
    \/ ParJoin
    \/ ParSpinJoin
    \/ ParPrint
    \/ ParCritic

\* ------------------------------------------------------------------------
\* Properties of run_parallel
\* ------------------------------------------------------------------------
shown_agents == {shown[k].agent_name : k \in 1..Len(shown)}

appended == {par_results[k].agent_name : k \in 1..Len(par_results)}

printed == par_pc \in {"critic", "done"}

MaxRounds == 3

\* bound: longest conclusion text, in tokens
MaxConclusionLen == 3

\* run_round: the keys of rr.steps in the order the step functions are called
StepOrder == <<"understand", "analyze", "methodology", "experiment", "results", "conclusion">>

\* pieces a conclusion text is made of; Q stands for the double quote character
Tokens == {"QdirectionQ:", "QDirectionQ:", " ", "QdoneQ", "QDONEQ", "QpivotQ", "x"}

Conclusions == UNION {[1..n -> Tokens] : n \in 0..MaxConclusionLen}

\* the text as it was written, case kept
as_written(text) == text

\* str.lower()
lower(text) ==
    [i \in 1..Len(text) |->
        CASE text[i] = "QDirectionQ:" -> "QdirectionQ:"
          [] text[i] = "QDONEQ" -> "QdoneQ"
          [] OTHER -> text[i]]

\* needle in text
contains(needle, text) ==
    \E i \in 0..(Len(text) - Len(needle)) : SubSeq(text, i + 1, i + Len(needle)) = needle

\* '"direction": "done"'
DoneNeedle == <<"QdirectionQ:", " ", "QdoneQ">>

\* what the user answers to "Continue to next round? [Y/n/q]"
Inputs == {"", "y", "N", "n", "no", "q", "quit", "exit", "EOFError", "KeyboardInterrupt"}

\* input(...).strip().lower()
response_of(inp) == IF inp = "N" THEN "n" ELSE inp

\* the for loop's range(len(state.rounds) + 1, total_rounds + 1) yields one number too many
range_beyond(n, total) == n <= total + 1

\* the for loop's range(len(state.rounds) + 1, total_rounds + 1) still yields n
range_yields(n, total) == n < total + 1

\* a new session has no rounds; a resumed one has those its state file recorded
InitResearch ==
    /\ res_pc = "call"
    /\ total_rounds \in 0..MaxRounds
    /\ interactive \in BOOLEAN
    /\ plan_only \in BOOLEAN
    /\ recorded \in 0..MaxRounds
    /\ rounds = [k \in 1..recorded |-> k]
    /\ range_next = 0
    /\ round_num = 0
    /\ started = <<>>
    /\ step_i = 0
    /\ events = <<>>
    /\ conclusion = <<>>
    /\ response = ""

IdleResearch ==
    /\ res_pc = "idle"
    /\ total_rounds = 0
    /\ interactive = FALSE
    /\ plan_only = FALSE
    /\ recorded = 0
    /\ rounds = <<>>
    /\ range_next = 0
    /\ round_num = 0
    /\ started = <<>>
    /\ step_i = 0
    /\ events = <<>>
    /\ conclusion = <<>>
    /\ response = ""

\* if plan_only: ...; return
ResPlanOnly ==
    /\ res_pc = "call"
    /\ plan_only
    /\ res_pc' = "returned"
    /\ UNCHANGED <<total_rounds, interactive, plan_only, recorded, rounds, range_next,
                   round_num, started, step_i, events, conclusion, response>>
    /\ UNCHANGED otherThanResearch

\* try: for round_num in range(len(state.rounds) + 1, total_rounds + 1):
ResEnterLoop ==
    /\ res_pc = "call"
    /\ ~plan_only
    /\ range_next' = Len(rounds) + 1
    /\ res_pc' = "loop"
    /\ UNCHANGED <<total_rounds, interactive, plan_only, recorded, rounds, round_num,
                   started, step_i, events, conclusion, response>>
    /\ UNCHANGED otherThanResearch

\* the loop takes its next number and calls run_round, which makes a fresh RoundResult
ResNextRound ==
    /\ res_pc = "loop"
    /\ range_yields(range_next, total_rounds)
    /\ round_num' = range_next
    /\ range_next' = range_next + 1
    /\ started' = Append(started, round_num')
    /\ step_i' = 0
    /\ events' = <<>>
    /\ conclusion' = <<>>
    /\ res_pc' = "round"
    /\ UNCHANGED <<total_rounds, interactive, plan_only, recorded, rounds, response>>
    /\ UNCHANGED otherThanResearch

\* the range is exhausted: the loop ends
ResLoopEnd ==
    /\ res_pc = "loop"
    /\ ~range_yields(range_next, total_rounds)
    /\ res_pc' = "after_loop"
    /\ UNCHANGED <<total_rounds, interactive, plan_only, recorded, rounds, range_next,
                   round_num, started, step_i, events, conclusion, response>>
    /\ UNCHANGED otherThanResearch

\* run_round calls the next step function
ResStepStart ==
    /\ res_pc = "round"
    /\ step_i < Len(StepOrder)
    /\ step_i' = step_i + 1
    /\ events' = Append(events, <<"call", StepOrder[step_i']>>)
    /\ res_pc' = "step"
    /\ UNCHANGED <<total_rounds, interactive, plan_only, recorded, rounds, range_next,
                   round_num, started, conclusion, response>>
    /\ UNCHANGED otherThanResearch

\* the step function returns; step6_conclusion has set rr.conclusion = res.output
ResStepReturn ==
    /\ res_pc = "step"
    /\ events' = Append(events, <<"return", StepOrder[step_i]>>)
    /\ IF StepOrder[step_i] = "conclusion"
       THEN conclusion' \in Conclusions
       ELSE conclusion' = conclusion
    /\ res_pc' = "round"
    /\ UNCHANGED <<total_rounds, interactive, plan_only, recorded, rounds, range_next,
                   round_num, started, step_i, response>>
    /\ UNCHANGED otherThanResearch

\* run_round: state.rounds.append(rr); return rr
ResRoundEnd ==
    /\ res_pc = "round"
    /\ step_i = Len(StepOrder)
    /\ rounds' = Append(rounds, round_num)
    /\ res_pc' = "check"
    /\ UNCHANGED <<total_rounds, interactive, plan_only, recorded, range_next, round_num,
                   started, step_i, events, conclusion, response>>
    /\ UNCHANGED otherThanResearch

\* direction = rr.conclusion.lower() if rr.conclusion else ""
\* if '"direction": "done"' in direction: break
\* if interactive and round_num < total_rounds: ask; otherwise next iteration
ResCheckDirection ==
    /\ res_pc = "check"
    /\ LET direction == IF conclusion # <<>> THEN lower(conclusion) ELSE <<>>
       IN  res_pc' = IF contains(DoneNeedle, direction) THEN "after_loop"
                     ELSE IF interactive /\ round_num < total_rounds THEN "confirm"
                     ELSE "loop"
    /\ UNCHANGED <<total_rounds, interactive, plan_only, recorded, rounds, range_next,
                   round_num, started, step_i, events, conclusion, response>>
    /\ UNCHANGED otherThanResearch

\* response = input(...).strip().lower(); n, no, q, quit, exit, EOFError and
\* KeyboardInterrupt at the prompt break the loop, any other answer continues
ResConfirm ==
    /\ res_pc = "confirm"
    /\ \E inp \in Inputs :
        /\ response' = response_of(inp)
        /\ res_pc' = IF response' \in {"n", "no", "q", "quit", "exit",
                                        "EOFError", "KeyboardInterrupt"}
                     THEN "after_loop"
                     ELSE "loop"
    /\ UNCHANGED <<total_rounds, interactive, plan_only, recorded, rounds, range_next,
                   round_num, started, step_i, events, conclusion>>
    /\ UNCHANGED otherThanResearch

\* except KeyboardInterrupt: ...; return
ResInterrupt ==
    /\ res_pc \in {"loop", "round", "step", "check"}
    /\ res_pc' = "cancelled"
    /\ UNCHANGED <<total_rounds, interactive, plan_only, recorded, rounds, range_next,
                   round_num, started, step_i, events, conclusion, response>>
    /\ UNCHANGED otherThanResearch

\* after the loop: mark_completed, the report and the summaries
ResReport ==
    /\ res_pc = "after_loop"
    /\ res_pc' = "returned"
    /\ UNCHANGED <<total_rounds, interactive, plan_only, recorded, rounds, range_next,
                   round_num, started, step_i, events, conclusion, response>>
    /\ UNCHANGED otherThanResearch

NextResearch ==
    \/ ResPlanOnly
    \/ ResEnterLoop
    \/ ResNextRound
    \/ ResLoopEnd
    \/ ResStepStart
    \/ ResStepReturn
    \/ ResRoundEnd
    \/ ResCheckDirection
    \/ ResConfirm
    \/ ResInterrupt
    \/ ResReport

\* ------------------------------------------------------------------------
\* Properties of run_research_session
\* ------------------------------------------------------------------------
\* the calls and returns of a whole round, in the order of StepOrder
round_events ==
    [k \in 1..(2 * Len(StepOrder)) |->
        <<IF k % 2 = 1 THEN "call" ELSE "return", StepOrder[(k + 1) \div 2]>>]

says_done(text) ==
    \E i \in 1..(Len(text) - 2) :
        /\ text[i] \in {"QdirectionQ:", "QDirectionQ:"}
        /\ text[i + 1] = " "
        /\ text[i + 2] \in {"QdoneQ", "QDONEQ"}

MaxRetries == 3

\* what the planner prints, as far as generate_plan looks at it: whether a
\* balanced {...} can be cut out of it, whether that text is valid JSON, what
\* the object has under "tasks", and what the items of that list are
Raw(json, tasks_key, items) == [json |-> json, tasks_key |-> tasks_key, items |-> items]

RawTexts ==
    {Raw("none", "missing", "none"),      \* prose only, or an unbalanced brace
     Raw("invalid", "missing", "none"),   \* {...} that json.loads rejects
     Raw("object", "missing", "none"),    \* an object without "tasks"
     Raw("object", "not_list", "none"),   \* "tasks" is not a list
     Raw("object", "list", "objects"),    \* "tasks" is a list of objects
     Raw("object", "list", "others")}     \* "tasks" is a list with a non-object item

NoError == [type |-> "None", attempt |-> 0]

ValueError(n) == [type |-> "ValueError", attempt |-> n]

NoPlan == Raw("none", "none", "none")

\* the outcome of one pass of the loop body on the text raw:
\* _extract_json, json.loads, the "tasks" test, the setdefault loop
parse(raw) ==
    IF raw.json = "none" THEN "no_json"
    ELSE IF raw.json = "invalid" THEN "invalid_json"
    ELSE IF raw.tasks_key # "list" THEN "missing_tasks"
    ELSE IF raw.items # "objects" THEN "AttributeError"
    ELSE "plan"

InitPlanner ==
    /\ gp_pc = "loop"
    /\ max_retries \in 0..MaxRetries
    /\ attempt = 0
    /\ raw_seen = <<>>
    /\ last_error = NoError
    /\ gp_plan = NoPlan
    /\ gp_raised = NoError

IdlePlanner ==
    /\ gp_pc = "idle"
    /\ max_retries = 0
    /\ attempt = 0
    /\ raw_seen = <<>>
    /\ last_error = NoError
    /\ gp_plan = NoPlan
    /\ gp_raised = NoError

\* for attempt in range(1, max_retries + 2): raw = _run_planner(goal, cwd)
GpCallPlanner ==
    /\ gp_pc = "loop"
    /\ attempt + 1 < max_retries + 2
    /\ attempt' = attempt + 1
    /\ gp_pc' = "planner"
    /\ UNCHANGED <<max_retries, raw_seen, last_error, gp_plan, gp_raised>>
    /\ UNCHANGED otherThanPlanner

\* _run_planner returns raw; the rest of the loop body runs on it
GpPlannerReturns ==
    /\ gp_pc = "planner"
    /\ \E raw \in RawTexts :
        /\ raw_seen' = Append(raw_seen, raw)
        /\ CASE parse(raw) = "plan" ->
                  /\ gp_plan' = raw
                  /\ gp_pc' = "returned"
                  /\ UNCHANGED <<last_error, gp_raised>>
             [] parse(raw) = "AttributeError" ->
                  /\ gp_raised' = [type |-> "AttributeError", attempt |-> attempt]
                  /\ gp_pc' = "raised"
                  /\ UNCHANGED <<last_error, gp_plan>>
             [] OTHER ->
                  /\ last_error' = ValueError(attempt)
                  /\ gp_pc' = "loop"
                  /\ UNCHANGED <<gp_plan, gp_raised>>
    /\ UNCHANGED <<max_retries, attempt>>
    /\ UNCHANGED otherThanPlanner

\* _run_planner: Ctrl-C, or the 120 s timeout turned into KeyboardInterrupt;
\* generate_plan re-raises it
GpPlannerCancelled ==
    /\ gp_pc = "planner"
    /\ gp_raised' = [type |-> "KeyboardInterrupt", attempt |-> attempt]
    /\ gp_pc' = "raised"
    /\ UNCHANGED <<max_retries, attempt, raw_seen, last_error, gp_plan>>
    /\ UNCHANGED otherThanPlanner

\* raise last_error  # all attempts failed
GpRaiseLast ==
    /\ gp_pc = "loop"
    /\ ~(attempt + 1 < max_retries + 2)
    /\ gp_raised' = last_error
    /\ gp_pc' = "raised"
    /\ UNCHANGED <<max_retries, attempt, raw_seen, last_error, gp_plan>>
    /\ UNCHANGED otherThanPlanner

NextPlanner ==
    \/ GpCallPlanner
    \/ GpPlannerReturns
    \/ GpPlannerCancelled
    \/ GpRaiseLast

\* ------------------------------------------------------------------------
\* Properties of generate_plan
\* ------------------------------------------------------------------------
\* a JSON object with a "tasks" list can be parsed from the text
has_tasks_list(raw) == raw.json = "object" /\ raw.tasks_key = "list"

\* C11: generate_plan calls the planner at most max_retries + 1 times; the first
\* response from which a JSON object with a "tasks" list can be parsed ends the
\* loop and its plan is returned; generate_plan raises (other than on Ctrl-C or
\* a planner timeout) only when all max_retries + 1 attempts failed to parse,
\* and then the error of the last attempt
C11_RetryOnParseFailure ==
    /\ attempt <= max_retries + 1
    /\ \A k \in 1..Len(raw_seen) :
        has_tasks_list(raw_seen[k]) =>
            /\ k = Len(raw_seen)
            /\ gp_pc = "returned"
            /\ gp_plan = raw_seen[k]
    /\ (gp_pc = "raised" /\ gp_raised.type # "KeyboardInterrupt") =>
            /\ Len(raw_seen) = max_retries + 1
            /\ \A k \in 1..Len(raw_seen) : ~has_tasks_list(raw_seen[k])
            /\ gp_raised = ValueError(max_retries + 1)

\* ------------------------------------------------------------------------
\* research/monitor.py: BackgroundMonitor.wait, _monitor_loop
\* ------------------------------------------------------------------------
\* monitor.py:28  len(SPINNER)
SpinnerLen == 10

\* log_file is None, or what the last 1000 lines of the log match
LogStates == {"no_log_file", "no_match", "success", "failure"}

\* patterns.completion_file is None, or whether the file exists
CompletionStates == {"unset", "absent", "present"}

\* _check_completion_status: progress.status after the call
status_after_check(st, lg, done_file) ==
    IF done_file = "present" THEN "completed"
    ELSE IF lg = "no_log_file" THEN st
    ELSE IF lg = "failure" THEN "failed"
    ELSE IF lg = "success" THEN "completed"
    ELSE st

\* _check_completion_status: its return value
check_completed(lg, done_file) ==
    done_file = "present" \/ lg \in {"failure", "success"}

\* run_background_task: monitor.start() has started the process and the monitor
\* thread, then monitor.wait() is called
InitMonitor ==
    /\ wait_pc = "call"
    /\ show_spinner \in BOOLEAN
    /\ spinner_idx = 0
    /\ monitor_pc = "poll"
    /\ process = "running"
    /\ returncode = -1
    /\ status = "running"
    /\ exit_code = -1
    /\ log \in {"no_log_file", "no_match"}
    /\ completion \in {"unset", "absent"}

IdleMonitor ==
    /\ wait_pc = "idle"
    /\ show_spinner = FALSE
    /\ spinner_idx = 0
    /\ monitor_pc = "idle"
    /\ process = "idle"
    /\ returncode = -1
    /\ status = "running"
    /\ exit_code = -1
    /\ log = "no_log_file"
    /\ completion = "unset"

\* the monitored command writes to its log
ProcessWrites ==
    /\ process = "running"
    /\ log # "no_log_file"
    /\ log' \in {"no_match", "success", "failure"} \ {log}
    /\ UNCHANGED <<wait_pc, show_spinner, spinner_idx, monitor_pc, process, returncode,
                   status, exit_code, completion>>
    /\ UNCHANGED otherThanMonitor

\* the monitored command creates its completion file
ProcessCompletionFile ==
    /\ process = "running"
    /\ completion = "absent"
    /\ completion' = "present"
    /\ UNCHANGED <<wait_pc, show_spinner, spinner_idx, monitor_pc, process, returncode,
                   status, exit_code, log>>
    /\ UNCHANGED otherThanMonitor

\* the monitored command exits
ProcessExits ==
    /\ process = "running"
    /\ process' = "exited"
    /\ returncode' \in {0, 1}
    /\ UNCHANGED <<wait_pc, show_spinner, spinner_idx, monitor_pc, status, exit_code, log,
                   completion>>
    /\ UNCHANGED otherThanMonitor

\* _monitor_loop: if self.process.poll() is not None:
\*     self._check_completion_status(); break
MonitorPoll ==
    /\ monitor_pc = "poll"
    /\ IF process = "exited"
       THEN /\ status' = status_after_check(status, log, completion)
            /\ monitor_pc' = "ended"
       ELSE /\ status' = status
            /\ monitor_pc' = "checks"
    /\ UNCHANGED <<wait_pc, show_spinner, spinner_idx, process, returncode, exit_code, log,
                   completion>>
    /\ UNCHANGED otherThanMonitor

\* _monitor_loop: the timeout and the stall test give up with status "failed"
MonitorGivesUp ==
    /\ monitor_pc = "checks"
    /\ status' = "failed"
    /\ monitor_pc' = "ended"
    /\ UNCHANGED <<wait_pc, show_spinner, spinner_idx, process, returncode, exit_code, log,
                   completion>>
    /\ UNCHANGED otherThanMonitor

\* _monitor_loop: if self._check_completion_status(): break; else sleep
MonitorChecks ==
    /\ monitor_pc = "checks"
    /\ status' = status_after_check(status, log, completion)
    /\ monitor_pc' = IF check_completed(log, completion) THEN "ended" ELSE "sleep"
    /\ UNCHANGED <<wait_pc, show_spinner, spinner_idx, process, returncode, exit_code, log,
                   completion>>
    /\ UNCHANGED otherThanMonitor

\* _monitor_loop: time.sleep(poll_time) is over
MonitorSleeps ==
    /\ monitor_pc = "sleep"
    /\ monitor_pc' = "poll"
    /\ UNCHANGED <<wait_pc, show_spinner, spinner_idx, process, returncode, status,
                   exit_code, log, completion>>
    /\ UNCHANGED otherThanMonitor

\* wait: if show_spinner: self._show_live_progress()
WaitEnter ==
    /\ wait_pc = "call"
    /\ wait_pc' = IF show_spinner THEN "spinner" ELSE "join"
    /\ UNCHANGED <<show_spinner, spinner_idx, monitor_pc, process, returncode, status,
                   exit_code, log, completion>>
    /\ UNCHANGED otherThanMonitor

\* _show_live_progress: while self.progress.status == "running":
spin_while(st) == st = "running"

\* _show_live_progress: one turn of the loop, or the loop ends
WaitSpinner ==
    /\ wait_pc = "spinner"
    /\ IF spin_while(status)
       THEN /\ spinner_idx' = (spinner_idx + 1) % SpinnerLen
            /\ wait_pc' = "spinner"
       ELSE /\ spinner_idx' = spinner_idx
            /\ wait_pc' = "join"
    /\ UNCHANGED <<show_spinner, monitor_pc, process, returncode, status, exit_code, log,
                   completion>>
    /\ UNCHANGED otherThanMonitor

\* wait: self._monitor_thread.join()
WaitJoin ==
    /\ wait_pc = "join"
    /\ monitor_pc = "ended"
    /\ wait_pc' = "process_wait"
    /\ UNCHANGED <<show_spinner, spinner_idx, monitor_pc, process, returncode, status,
                   exit_code, log, completion>>
    /\ UNCHANGED otherThanMonitor

\* wait: self.process.wait(); progress.exit_code = returncode; a non-zero code
\* turns a status still "running" into "failed"; return self.progress
WaitProcess ==
    /\ wait_pc = "process_wait"
    /\ process = "exited"
    /\ exit_code' = returncode
    /\ status' = IF returncode # 0 /\ status = "running" THEN "failed" ELSE status
    /\ wait_pc' = "returned"
    /\ UNCHANGED <<show_spinner, spinner_idx, monitor_pc, process, returncode, log,
                   completion>>
    /\ UNCHANGED otherThanMonitor

MonitorThread == MonitorPoll \/ MonitorGivesUp \/ MonitorChecks \/ MonitorSleeps

WaitThread == WaitEnter \/ WaitSpinner \/ WaitJoin \/ WaitProcess

NextMonitor ==
    \/ ProcessWrites
    \/ ProcessCompletionFile
    \/ ProcessExits
    \/ MonitorPoll
    \/ MonitorGivesUp
    \/ MonitorChecks
    \/ MonitorSleeps
    \/ WaitEnter
    \/ WaitSpinner
    \/ WaitJoin
    \/ WaitProcess

\* ------------------------------------------------------------------------
\* Properties of BackgroundMonitor.wait
\* ------------------------------------------------------------------------
\* C12: once the monitored process has exited, wait() called with
\* show_spinner=True eventually returns, whatever the log contains and whether
\* or not a log file, a completion file or a matching pattern exists
C12_WaitReturns ==
    (process = "exited" /\ show_spinner) ~> (wait_pc = "returned")

\* ------------------------------------------------------------------------
\* cli.py: run_single; agents/claude_agent.py, agents/codex_agent.py: run
\* ------------------------------------------------------------------------
\* what the agent binary can leave behind: it was not found, or it wrote
\* stdout and stderr and exited with a return code
CompletedProcess(found, stdout, stderr, rc) ==
    [found |-> found, stdout |-> stdout, stderr |-> stderr, returncode |-> rc]

Outcomes ==
    {CompletedProcess(FALSE, "", "", 127)} \cup
    {CompletedProcess(TRUE, out, err, rc) :
        out \in {"", "answer"}, err \in {"", "warning", "fatal error"}, rc \in {0, 1, 2}}

NoProcess == CompletedProcess(FALSE, "", "", -1)

\* base.AgentResult: output, error, returncode
SingleResult(output, error, rc) ==
    [output |-> output, error |-> error, returncode |-> rc]

NoResult == SingleResult("", "", -1)

\* ClaudeAgent.run
claude_run(proc) ==
    IF proc.found
    THEN SingleResult(proc.stdout, proc.stderr, proc.returncode)
    ELSE SingleResult("", "'claude' command not found", 127)

\* CodexAgent.run: output = proc.stdout or proc.stderr,
\* error = proc.stderr if proc.stdout else ""
codex_run(proc) ==
    IF proc.found
    THEN SingleResult(IF proc.stdout # "" THEN proc.stdout ELSE proc.stderr,
                      IF proc.stdout # "" THEN proc.stderr ELSE "",
                      proc.returncode)
    ELSE SingleResult("", "'codex' command not found", 127)

\* AgentResult.success
success(res) == res.returncode = 0

InitSingle ==
    /\ single_pc = "start"
    /\ single_agent \in Agents
    /\ spin_started \in BOOLEAN
    /\ completed_proc = NoProcess
    /\ result = NoResult
    /\ single_printed = <<>>
    /\ exit_status = -1

IdleSingle ==
    /\ single_pc = "idle"
    /\ single_agent = "claude"
    /\ spin_started = FALSE
    /\ completed_proc = NoProcess
    /\ result = NoResult
    /\ single_printed = <<>>
    /\ exit_status = -1

\* result = agent.run(task, cwd=cwd): the subprocess is started
SingleRunAgent ==
    /\ single_pc = "start"
    /\ single_pc' = "agent"
    /\ UNCHANGED <<single_agent, spin_started, completed_proc, result, single_printed,
                   exit_status>>
    /\ UNCHANGED otherThanSingle

\* subprocess.run returns (or raises FileNotFoundError), agent.run builds its result
SingleAgentReturns ==
    /\ single_pc = "agent"
    /\ \E proc \in Outcomes :
        /\ completed_proc' = proc
        /\ result' = IF single_agent = "claude" THEN claude_run(proc) ELSE codex_run(proc)
    /\ single_pc' = "spin_join"
    /\ UNCHANGED <<single_agent, spin_started, single_printed, exit_status>>
    /\ UNCHANGED otherThanSingle

\* done.set(); if spin_started: spin_t.join(timeout=0.5)
SingleSpinJoin ==
    /\ single_pc = "spin_join"
    /\ single_pc' = "report"
    /\ UNCHANGED <<single_agent, spin_started, completed_proc, result, single_printed,
                   exit_status>>
    /\ UNCHANGED otherThanSingle

\* if not result.success: print("[... ERROR]"); print(result.error); sys.exit(1)
\* print(result.display(...))
SingleReport ==
    /\ single_pc = "report"
    /\ IF ~success(result)
       THEN /\ single_printed' = single_printed \o <<"[ERROR]", result.error>>
            /\ exit_status' = 1
            /\ single_pc' = "exited"
       ELSE /\ single_printed' = Append(single_printed, result.output)
            /\ exit_status' = exit_status
            /\ single_pc' = "returned"
    /\ UNCHANGED <<single_agent, spin_started, completed_proc, result>>
    /\ UNCHANGED otherThanSingle

NextSingle ==
    \/ SingleRunAgent
    \/ SingleAgentReturns
    \/ SingleSpinJoin
    \/ SingleReport

\* ------------------------------------------------------------------------
\* Properties of run_single
\* ------------------------------------------------------------------------
\* C13: when the agent subprocess has exited with a non-zero return code,
\* run_single ends by printing the text the subprocess wrote to stderr and
\* exiting with a non-zero status
C13_StderrPrintedAndExit ==
    (single_pc \in {"exited", "returned"}
        /\ completed_proc.found /\ completed_proc.returncode # 0) =>
            /\ InList(completed_proc.stderr, single_printed)
            /\ single_pc = "exited"
            /\ exit_status > 0

\* ------------------------------------------------------------------------
\* Specifications: one per entry point, the others idle
\* ------------------------------------------------------------------------
vars == <<execVars, poolVars, parVars, resVars, gpVars, monVars, singleVars>>

\* every rotation of the agents' answers over the tasks
AllShifts == 0..(Len(Kinds) - 1)

\* collab goal / collab resume, with one assignment of answers to tasks
Init == InitExec /\ IdlePool /\ IdleParallel /\ IdleResearch /\ IdlePlanner /\ IdleMonitor /\ IdleSingle

Next == NextExec({0})

Spec == Init /\ [][Next]_vars

\* collab goal / collab resume, with every assignment of answers to tasks
NextContext == NextExec(AllShifts)

SpecContext == Init /\ [][NextContext]_vars

\* ParallelPool.run
InitPoolSpec == IdleExec /\ InitPool /\ IdleParallel /\ IdleResearch /\ IdlePlanner /\ IdleMonitor /\ IdleSingle

SpecPool == InitPoolSpec /\ [][NextPool]_vars

\* run_parallel
InitParallelSpec == IdleExec /\ IdlePool /\ InitParallel /\ IdleResearch /\ IdlePlanner /\ IdleMonitor /\ IdleSingle

SpecParallel == InitParallelSpec /\ [][NextParallel]_vars

\* run_research_session
InitResearchSpec == IdleExec /\ IdlePool /\ IdleParallel /\ InitResearch /\ IdlePlanner /\ IdleMonitor /\ IdleSingle

SpecResearch == InitResearchSpec /\ [][NextResearch]_vars

\* generate_plan
InitPlannerSpec == IdleExec /\ IdlePool /\ IdleParallel /\ IdleResearch /\ InitPlanner /\ IdleMonitor /\ IdleSingle

SpecPlanner == InitPlannerSpec /\ [][NextPlanner]_vars

\* BackgroundMonitor.wait: the monitor thread and the waiting thread are
\* scheduled (each keeps taking its steps); the process need not ever exit
InitMonitorSpec == IdleExec /\ IdlePool /\ IdleParallel /\ IdleResearch /\ IdlePlanner /\ InitMonitor /\ IdleSingle

SpecMonitor ==
    /\ InitMonitorSpec
    /\ [][NextMonitor]_vars
    /\ WF_vars(MonitorThread)
    /\ WF_vars(WaitThread)

\* run_single
InitSingleSpec == IdleExec /\ IdlePool /\ IdleParallel /\ IdleResearch /\ IdlePlanner /\ IdleMonitor /\ InitSingle

SpecSingle == InitSingleSpec /\ [][NextSingle]_vars

====
